---- MODULE Spec2Model ----
(***************************************************************************)
(* Model of fastcopy-python.py (class FastCopySystem).                     *)
(*                                                                         *)
(* Two specifications follow the program from a call of its entry points:  *)
(*   SpecCopy     _copy_large_file exactly as written (lines 55-75): the    *)
(*                name `threads` is bound to the worker count on line 58    *)
(*                and rebound to the empty handle list on line 62, so the   *)
(*                `range(threads)` of line 63 raises TypeError.             *)
(*   Spec         the orchestrator `run` (lines 85-118) over a small file   *)
(*                tree: index, pack, large-file phase, unpack, remove.      *)
(* A third applies one method to arguments drawn from bounded sets:        *)
(*   SpecIndex    _update_index (lines 25-30) called by several threads on  *)
(*                the one sqlite3 connection of line 20.                    *)
(* _copy_chunk (lines 77-83) has no part in any of them: no call of        *)
(* _copy_large_file gets as far as line 67, so no thread ever runs it.     *)
(***************************************************************************)
EXTENDS Integers, Sequences, FiniteSets, TLC

(***************************************************************************)
(* Bounds of the model.                                                    *)
(***************************************************************************)
\* largest source file, in bytes, given to the chunk copier
MaxFileSize == 5
\* source contents are SrcContent(n, seed) for seed in 0..MaxSeed
MaxSeed == 1
\* longest destination file left by an earlier copy
MaxOldLen == 2
\* calls of _copy_large_file on the same (src, dest) pair
MaxCalls == 2
\* versions (bytes and mtime) a source file of the tree may have
MaxVersion == 1
\* changes other processes make to the source tree while run() is indexing
\* and packing
MaxEnv == 1

(***************************************************************************)
(* Program constants.                                                      *)
(***************************************************************************)
\* line 58: threads = 4
NumThreads == 4

Min(a, b) == IF a < b THEN a ELSE b
Max(a, b) == IF a < b THEN b ELSE a

(***************************************************************************)
(* Files are sequences of bytes.                                           *)
(***************************************************************************)
SrcContent(n, seed) == [k \in 1..n |-> (seed + k - 1) % 256]
OldContent(n) == [k \in 1..n |-> (200 + k) % 256]
SrcContents == {SrcContent(n, s) : n \in 0..MaxFileSize, s \in 0..MaxSeed}

\* line 59: chunk_size = file_size // threads
ChunkSize(size, n) == size \div n

(***************************************************************************)
(* Paths are sequences of segments; an absolute path starts with "/".      *)
(***************************************************************************)
IsAbs(p) == p # <<>> /\ Head(p) = "/"

\* os.path.join(a, b)
Join(a, b) == IF IsAbs(b) THEN b ELSE a \o b

\* the process's working directory, as a location
Cwd == <<"w">>

RECURSIVE NormInto(_, _)
NormInto(acc, p) ==
    IF p = <<>> THEN acc
    ELSE LET h == Head(p)
         IN NormInto(IF h = "." \/ h = "/" THEN acc
                     ELSE IF h = ".."
                          THEN SubSeq(acc, 1, Len(acc) - 1)
                          ELSE Append(acc, h),
                     Tail(p))

\* the location (segments from the filesystem root) that the OS resolves a
\* path to: "." is dropped, ".." leaves the directory it stands in
Resolve(p) == IF IsAbs(p) THEN NormInto(<<>>, p) ELSE NormInto(Cwd, p)

Inside(loc, root) ==
    Len(loc) >= Len(root) /\ SubSeq(loc, 1, Len(root)) = root

CommonLen(a, b) ==
    CHOOSE k \in 0..Min(Len(a), Len(b)) :
        /\ SubSeq(a, 1, k) = SubSeq(b, 1, k)
        /\ k = Min(Len(a), Len(b)) \/ a[k + 1] # b[k + 1]

\* os.path.relpath(p, start)
RelPath(p, start) ==
    LET a == Resolve(p)
        b == Resolve(start)
        k == CommonLen(a, b)
        r == [i \in 1..(Len(b) - k) |-> ".."] \o SubSeq(a, k + 1, Len(a))
    IN IF r = <<>> THEN <<".">> ELSE r

RECURSIVE LStrip(_)
\* tarfile.gettarinfo: arcname = name, arcname.lstrip("/")
LStrip(p) == IF IsAbs(p) THEN LStrip(Tail(p)) ELSE p
ArcName(name) == LStrip(name)

\* line 14: self.large_file_threshold
Threshold == 1024 * 1024 * 100

\* self.dest of the runs modelled
DestRoot == <<"/", "d">>
\* self.src of the runs modelled: ".", "s", "/s" and "../s"
SrcRoots == {<<".">>, <<"s">>, <<"/", "s">>, <<"..", "s">>}
\* the files a source tree may hold (the order numbers them, it is not the
\* order of a walk)
RelOrder == << <<"a">>, <<"sub", "b">> >>
RelPaths == {RelOrder[i] : i \in 1..Len(RelOrder)}
FileSizes == {0, Threshold - 1, Threshold}

\* A file on disk: its size, its bytes (data: equal tags are equal bytes) and
\* its modification time.
FileRec(size, v) == [size |-> size, data |-> IF size = 0 THEN 0 ELSE v, mtime |-> v]
Absent == [size |-> -1, data |-> 0, mtime |-> 0]
FileChoices == {FileRec(n, v) : n \in FileSizes, v \in 1..MaxVersion} \cup {Absent}

Put(f, k, v) == [x \in (DOMAIN f) \cup {k} |-> IF x = k THEN v ELSE f[x]]

\* the directories of a source tree, in the order os.walk visits them
DirOrder == << <<>>, <<"sub">> >>

\* self.index_db, line 15: a relative name, so the file made by
\* sqlite3.connect (line 20) is in the working directory, and inside the
\* source tree when that is the source root
IndexDb == <<"file_index.db">>
\* the file as sqlite3 writes it for the table of line 22 and its key index:
\* three pages of 4096 bytes; v counts the commits
DbFile(v) == [size |-> 3 * 4096, data |-> v, mtime |-> v]
\* line 30, commit: the file is rewritten
Committed(t) ==
    [t EXCEPT ![Resolve(IndexDb)] = DbFile(@.mtime + 1)]
\* lines 28-30: between the REPLACE INTO and the commit sqlite3 keeps a
\* rollback journal next to the database file: a header sector of 512 bytes
\* and the two pages the statement changes, each with 8 bytes around it
Journal == <<"file_index.db-journal">>
JournalFile == [size |-> 512 + 2 * (4096 + 8), data |-> 0, mtime |-> 0]

\* a directory of the tree: an entry that is no file
DirRec == [size |-> -2, data |-> 0, mtime |-> 0]

\* the relative paths of the files a walk can meet
WalkNames == RelPaths \cup {IndexDb}

\* os.walk(root), one directory: the paths os.path.join(root, f) of the files
\* that directory d holds in tree t at the moment it is listed. os.scandir
\* gives them in the order of the file system, which is any order.
ListDir(root, d, t) ==
    LET here == {Join(root, r) : r \in
                    {q \in WalkNames : /\ SubSeq(q, 1, Len(q) - 1) = d
                                       /\ (Resolve(root) \o q) \in DOMAIN t}}
    IN {q \in [1..Cardinality(here) -> here] :
            \A i, j \in DOMAIN q : i # j => q[i] # q[j]}

\* os.walk(root): the subdirectories the listing of the top directory sees in
\* tree t; the walk descends into these and into no other
DirsSeen(root, t) ==
    {i \in 2..Len(DirOrder) : (Resolve(root) \o DirOrder[i]) \in DOMAIN t}

\* the tree that holds the files f (relative path -> file) under root, the
\* directories dirs, and the index database in the working directory
TreeOf(root, f, dirs) ==
    LET base == Resolve(root)
        fl == {base \o r : r \in {q \in RelPaths : f[q] # Absent}}
        dl == {base \o d : d \in dirs}
    IN Put([l \in fl \cup dl |->
               IF l \in dl THEN DirRec
               ELSE f[SubSeq(l, Len(base) + 1, Len(l))]],
           Resolve(IndexDb), DbFile(1))

\* the subdirectories of the walk, and those the files f need
SubDirs == {DirOrder[i] : i \in 2..Len(DirOrder)}
DirsOf(f) ==
    {SubSeq(r, 1, Len(r) - 1) :
        r \in {q \in RelPaths : f[q] # Absent /\ Len(q) > 1}}

\* dest/_temp_archive.tar: mode is "none", "w" (open for writing), "closed",
\* "truncated" (closed inside a member) or "r" (open for reading); pending
\* holds the header of the member tar.add is working on
NoArchive ==
    [exists |-> FALSE, mode |-> "none", members |-> <<>>, pending |-> <<>>]

\* The table file_index is a set of rows [path, size, mtime].
Row(path, size, mtime) == [path |-> path, size |-> size, mtime |-> mtime]

\* mutant of ReplaceInto: a plain insert that leaves the old row in place
InsertInto(table, row) == table \cup {row}

\* line 28: REPLACE INTO file_index, path being the primary key
ReplaceInto(table, row) == {r \in table : r.path # row.path} \cup {row}

\* file_index.db outlives a run: what an earlier run may have left in it,
\* a file of another source root or an older state of a file of this one
StaleTables(root) ==
    { {},
      {Row(<<"/", "o", "c">>, Threshold, 0)},
      {Row(Join(root, <<"a">>), Threshold, 0)} }

SeqRange(q) == {q[i] : i \in 1..Len(q)}


VARIABLES
    \* ---- chunk copier -------------------------------------------------
    srcFile,      \* bytes of the source file
    dstExists,    \* the destination file exists
    dstFile,      \* bytes of the destination file (<<>> when it does not exist)
    cpc,          \* position of the thread running _copy_large_file
    calls,        \* calls of _copy_large_file made so far
    file_size,    \* local of line 57
    chunk_size,   \* local of line 59
    threads,      \* the local `threads`: [isList, count, handles]
    plan,         \* args (offset, size) of the threads created so far
    copyResult,   \* "none" | "returned" | "TypeError"
    handlesOpen,  \* fsrc and fdest are open
    \* ---- orchestrator (run) -------------------------------------------
    srcRoot,      \* self.src, a path
    tree,         \* the files on disk: location -> [size, data, mtime]
    index,        \* table file_index: a set of rows [path, size, mtime]
    index0,       \* the table as the run found it (history)
    indexed,      \* paths this run has upserted (history)
    archive,      \* dest/_temp_archive.tar: [exists, mode, members]
    rpc,          \* position of the thread running run()
    wdir,         \* place of the current os.walk in DirOrder (at its end: no
                  \* directory is left to list)
    todo,         \* files of the listed directory the walk has still to yield
    small_files,  \* local of _archive_small_files
    envLeft,      \* changes other processes may still make to the source tree
    owner,        \* the task running on the thread that opened the connection
    upc,          \* per indexing task: position in _update_index
    ustat,        \* per indexing task: the local `stat`
    large_left,   \* rows of large_files the loop of line 103 has not reached
    large_count,  \* len(large_files)
    archived_count, \* local of line 95
    xpos,         \* members extractall has extracted so far
    written,      \* locations extractall has written to (history)
    tarFilter,    \* extraction filter of the tarfile build that runs the code
    runError      \* exception that left run(), or "none"

copyVars == <<srcFile, dstExists, dstFile, cpc, calls, file_size, chunk_size,
              threads, plan, copyResult, handlesOpen>>
runVars == <<srcRoot, tree, index, index0, indexed, archive, rpc, wdir, todo,
             small_files, envLeft, large_left, large_count, archived_count,
             xpos, written, tarFilter, runError>>
taskVars == <<owner, upc, ustat>>
vars == <<copyVars, runVars, taskVars>>

ThreadsCount(n) == [isList |-> FALSE, count |-> n, handles |-> <<>>]
ThreadsList(h) == [isList |-> TRUE, count |-> 0, handles |-> h]

\* one indexing task per file of the tree
IndexTasks == 1..Len(RelOrder)

\* no thread but the one in run() uses the index
TasksIdle ==
    /\ owner = 0
    /\ upc = [t \in IndexTasks |-> "off"]
    /\ ustat = [t \in IndexTasks |-> Absent]

\* run() is not in progress
RunIdle ==
    /\ srcRoot = <<".">>
    /\ tree = <<>>
    /\ index = {}
    /\ index0 = {}
    /\ indexed = {}
    /\ archive = NoArchive
    /\ rpc = "off"
    /\ wdir = 0
    /\ todo = <<>>
    /\ small_files = <<>>
    /\ envLeft = 0
    /\ TasksIdle
    /\ large_left = {}
    /\ large_count = 0
    /\ archived_count = 0
    /\ xpos = 0
    /\ written = {}
    /\ tarFilter = "fully_trusted"
    /\ runError = "none"

\* no call of _copy_large_file is modelled step by step
CopyIdle ==
    /\ srcFile = <<>>
    /\ dstExists = FALSE
    /\ dstFile = <<>>
    /\ cpc = "off"
    /\ calls = 0
    /\ file_size = 0
    /\ chunk_size = 0
    /\ threads = ThreadsCount(0)
    /\ plan = <<>>
    /\ copyResult = "none"
    /\ handlesOpen = FALSE

\* State before a call of _copy_large_file(src, dest): a source file, and a
\* destination that is absent or left by an earlier copy.
InitCopy ==
    /\ srcFile \in SrcContents
    /\ \E old \in -1..MaxOldLen :
         /\ dstExists = (old >= 0)
         /\ dstFile = IF old >= 0 THEN OldContent(old) ELSE <<>>
    /\ cpc = "idle"
    /\ calls = 0
    /\ file_size = 0
    /\ chunk_size = 0
    /\ threads = ThreadsCount(0)
    /\ plan = <<>>
    /\ copyResult = "none"
    /\ handlesOpen = FALSE
    /\ RunIdle

(***************************************************************************)
(* _copy_large_file, lines 55-75.                                          *)
(***************************************************************************)
\* lines 57-59: file_size, threads = 4, chunk_size
CallCopy ==
    /\ cpc = "idle"
    /\ calls < MaxCalls
    /\ calls' = calls + 1
    /\ file_size' = Len(srcFile)
    /\ threads' = ThreadsCount(NumThreads)
    /\ chunk_size' = ChunkSize(Len(srcFile), NumThreads)
    /\ plan' = <<>>
    /\ copyResult' = "none"
    /\ cpc' = "open"
    /\ UNCHANGED <<srcFile, dstExists, dstFile, handlesOpen>>
    /\ UNCHANGED <<runVars, taskVars>>

\* line 61: open(src, 'rb'), open(dest, 'wb'): the destination is created or
\* truncated to length 0; nothing sizes it afterwards
OpenFiles ==
    /\ cpc = "open"
    /\ handlesOpen' = TRUE
    /\ dstExists' = TRUE
    /\ dstFile' = <<>>
    /\ cpc' = "bind"
    /\ UNCHANGED <<srcFile, calls, file_size, chunk_size, threads, plan,
                   copyResult>>
    /\ UNCHANGED <<runVars, taskVars>>

\* line 62 as written: threads = []  (the count of line 58 is gone)
RebindThreads ==
    /\ cpc = "bind"
    /\ threads' = ThreadsList(<<>>)
    /\ cpc' = "loop"
    /\ UNCHANGED <<srcFile, dstExists, dstFile, calls, file_size, chunk_size,
                   plan, copyResult, handlesOpen>>
    /\ UNCHANGED <<runVars, taskVars>>

\* line 63, range(threads) on a list: TypeError; the with statement closes
\* both handles and the exception leaves _copy_large_file
RangeTypeError ==
    /\ cpc = "loop"
    /\ threads.isList
    /\ handlesOpen' = FALSE
    /\ copyResult' = "TypeError"
    /\ cpc' = "done"
    /\ UNCHANGED <<srcFile, dstExists, dstFile, calls, file_size, chunk_size,
                   threads, plan>>
    /\ UNCHANGED <<runVars, taskVars>>

\* Between two calls on the same pair the source may change (or stay as it is)
ModifySource ==
    /\ cpc = "done"
    /\ calls < MaxCalls
    /\ srcFile' \in SrcContents
    /\ cpc' = "idle"
    /\ UNCHANGED <<dstExists, dstFile, calls, file_size, chunk_size, threads,
                   plan, copyResult, handlesOpen>>
    /\ UNCHANGED <<runVars, taskVars>>

(***************************************************************************)
(* run(), lines 85-118, with the methods it calls.                         *)
(***************************************************************************)
\* State when run() is called: a source root holding some files, an empty
\* destination root, the index as earlier runs left it, and one of the two
\* tarfile builds (extraction filter fully_trusted, or data as of Python 3.14).
Init ==
    /\ srcRoot \in SrcRoots
    /\ \E f \in [RelPaths -> FileChoices], dirs \in SUBSET SubDirs :
         /\ DirsOf(f) \subseteq dirs
         /\ tree = TreeOf(srcRoot, f, dirs)
    /\ index \in StaleTables(srcRoot)
    /\ index0 = index
    /\ indexed = {}
    /\ archive = NoArchive
    /\ rpc = "start"
    /\ wdir = 0
    /\ todo = <<>>
    /\ small_files = <<>>
    /\ envLeft = MaxEnv
    /\ large_left = {}
    /\ large_count = 0
    /\ archived_count = 0
    /\ xpos = 0
    /\ written = {}
    /\ tarFilter \in {"fully_trusted", "data"}
    /\ runError = "none"
    /\ TasksIdle
    /\ CopyIdle

Exists(path) == Resolve(path) \in DOMAIN tree
WalkOver == todo = <<>> /\ wdir = Len(DirOrder)

\* lines 87-91 and 35: run() enters _get_ntfs_changes
StartRun ==
    /\ rpc = "start"
    /\ rpc' = "index"
    /\ wdir' = 0
    /\ todo' = <<>>
    /\ UNCHANGED <<srcRoot, tree, index, index0, indexed, archive, small_files,
                   envLeft, large_left, large_count, archived_count, xpos,
                   written, tarFilter, runError>>
    /\ UNCHANGED <<copyVars, taskVars>>

\* lines 35 and 43: os.walk lists the next directory. The listing of the top
\* directory fixes the subdirectories of the walk: one made later is not
\* visited.
ListDirectory ==
    /\ rpc \in {"index", "pack"}
    /\ todo = <<>>
    /\ wdir < Len(DirOrder)
    /\ todo' \in ListDir(srcRoot, DirOrder[wdir + 1], tree)
    /\ wdir' = IF wdir = 0 /\ DirsSeen(srcRoot, tree) = {}
               THEN Len(DirOrder)
               ELSE wdir + 1
    /\ UNCHANGED <<srcRoot, tree, index, index0, indexed, archive, rpc,
                   small_files, envLeft, large_left, large_count,
                   archived_count, xpos, written, tarFilter, runError>>
    /\ UNCHANGED <<copyVars, taskVars>>

\* lines 36-38 and 25-30: _update_index(path): stat, REPLACE INTO, commit
IndexFile ==
    /\ rpc = "index"
    /\ todo # <<>>
    /\ Exists(Head(todo))
    /\ LET path == Head(todo)
           stat == tree[Resolve(path)]
       IN /\ index' = ReplaceInto(index, Row(path, stat.size, stat.mtime))
          /\ indexed' = indexed \cup {path}
    /\ tree' = Committed(tree)
    /\ todo' = Tail(todo)
    /\ UNCHANGED <<srcRoot, index0, archive, rpc, wdir, small_files,
                   envLeft, large_left, large_count, archived_count, xpos,
                   written, tarFilter, runError>>
    /\ UNCHANGED <<copyVars, taskVars>>

\* line 27: os.stat of a file that is gone raises FileNotFoundError; nothing
\* between _update_index and the caller of run() catches it
IndexStatFails ==
    /\ rpc = "index"
    /\ todo # <<>>
    /\ ~Exists(Head(todo))
    /\ runError' = "FileNotFoundError"
    /\ rpc' = "aborted"
    /\ UNCHANGED <<srcRoot, tree, index, index0, indexed, archive, wdir, todo,
                   small_files, envLeft, large_left, large_count,
                   archived_count, xpos, written, tarFilter>>
    /\ UNCHANGED <<copyVars, taskVars>>

\* lines 95 and 42-43: _get_ntfs_changes is through, _archive_small_files
\* starts its own walk
StartPack ==
    /\ rpc = "index"
    /\ WalkOver
    /\ rpc' = "pack"
    /\ wdir' = 0
    /\ small_files' = <<>>
    /\ UNCHANGED <<srcRoot, tree, index, index0, indexed, archive, todo,
                   envLeft, large_left, large_count, archived_count, xpos,
                   written, tarFilter, runError>>
    /\ UNCHANGED <<copyVars, taskVars>>

\* lines 44-47: the file is small if os.path.getsize says so now
PackStat ==
    /\ rpc = "pack"
    /\ todo # <<>>
    /\ Exists(Head(todo))
    /\ small_files' = IF tree[Resolve(Head(todo))].size < Threshold
                      THEN Append(small_files, Head(todo))
                      ELSE small_files
    /\ todo' = Tail(todo)
    /\ UNCHANGED <<srcRoot, tree, index, index0, indexed, archive, rpc, wdir,
                   envLeft, large_left, large_count, archived_count, xpos,
                   written, tarFilter, runError>>
    /\ UNCHANGED <<copyVars, taskVars>>

\* line 50: tarfile.open(dest/_temp_archive.tar, "w") creates the archive anew
PackOpen ==
    /\ rpc = "pack"
    /\ WalkOver
    /\ archive' = [exists |-> TRUE, mode |-> "w", members |-> <<>>,
                   pending |-> <<>>]
    /\ rpc' = "packing"
    /\ UNCHANGED <<srcRoot, tree, index, index0, indexed, wdir, todo,
                   small_files, envLeft, large_left, large_count,
                   archived_count, xpos, written, tarFilter, runError>>
    /\ UNCHANGED <<copyVars, taskVars>>

\* line 52, tar.add(file), first half (gettarinfo): lstat of the file gives
\* the header: the path as walked (source root included) with leading "/"
\* stripped, and size and mtime as of now
PackAddStat ==
    /\ rpc = "packing"
    /\ archive.pending = <<>>
    /\ Len(archive.members) < Len(small_files)
    /\ LET file == small_files[Len(archive.members) + 1]
       IN /\ Exists(file)
          /\ archive' = [archive EXCEPT !.pending =
                 <<[name |-> ArcName(file),
                    size |-> tree[Resolve(file)].size,
                    mtime |-> tree[Resolve(file)].mtime]>>]
    /\ UNCHANGED <<srcRoot, tree, index, index0, indexed, rpc, wdir, todo,
                   small_files, envLeft, large_left, large_count,
                   archived_count, xpos, written, tarFilter, runError>>
    /\ UNCHANGED <<copyVars, taskVars>>

\* the first size bytes of a file, as a record of the tree
Prefix(f, size, mtime) ==
    [size |-> size, data |-> IF size = 0 THEN 0 ELSE f.data, mtime |-> mtime]

\* line 52, tar.add(file), second half (open, addfile): the header is written
\* and as many bytes as the header says are copied from the file as it is now
PackAddData ==
    /\ rpc = "packing"
    /\ archive.pending # <<>>
    /\ LET file == small_files[Len(archive.members) + 1]
           hdr == archive.pending[1]
       IN /\ Exists(file)
          /\ tree[Resolve(file)].size >= hdr.size
          /\ archive' = [archive EXCEPT
                 !.pending = <<>>,
                 !.members = Append(@, [name |-> hdr.name,
                     file |-> Prefix(tree[Resolve(file)], hdr.size, hdr.mtime)])]
    /\ UNCHANGED <<srcRoot, tree, index, index0, indexed, rpc, wdir, todo,
                   small_files, envLeft, large_left, large_count,
                   archived_count, xpos, written, tarFilter, runError>>
    /\ UNCHANGED <<copyVars, taskVars>>

\* line 52, tar.add(file), second half on a file that has become shorter than
\* its header says: the copy raises OSError (unexpected end of data), which
\* leaves run(); the archive is closed where it stands, header written
PackShortRead ==
    /\ rpc = "packing"
    /\ archive.pending # <<>>
    /\ LET file == small_files[Len(archive.members) + 1]
       IN /\ Exists(file)
          /\ tree[Resolve(file)].size < archive.pending[1].size
    /\ archive' = [archive EXCEPT !.mode = "truncated"]
    /\ runError' = "OSError"
    /\ rpc' = "aborted"
    /\ UNCHANGED <<srcRoot, tree, index, index0, indexed, wdir, todo,
                   small_files, envLeft, large_left, large_count,
                   archived_count, xpos, written, tarFilter>>
    /\ UNCHANGED <<copyVars, taskVars>>

\* lines 46 and 52: getsize, or the lstat or the open of tar.add, on a file
\* that is gone raises FileNotFoundError, which leaves run(); the with
\* statement closes the archive
PackFails ==
    /\ \/ rpc = "pack" /\ todo # <<>> /\ ~Exists(Head(todo))
       \/ /\ rpc = "packing"
          /\ Len(archive.members) < Len(small_files)
          /\ ~Exists(small_files[Len(archive.members) + 1])
    /\ archive' = IF rpc = "packing"
                  THEN [archive EXCEPT !.mode = "closed", !.pending = <<>>]
                  ELSE archive
    /\ runError' = "FileNotFoundError"
    /\ rpc' = "aborted"
    /\ UNCHANGED <<srcRoot, tree, index, index0, indexed, wdir, todo,
                   small_files, envLeft, large_left, large_count,
                   archived_count, xpos, written, tarFilter>>
    /\ UNCHANGED <<copyVars, taskVars>>

\* mutant of PackComplete: the return of line 53 inside the loop of line 51
PackCompleteEarly ==
    (archive.members # <<>> \/ small_files = <<>>) /\ archive.pending = <<>>

\* line 51: the loop over small_files is through
PackComplete ==
    Len(archive.members) = Len(small_files) /\ archive.pending = <<>>

\* lines 50-53 and 95: the with statement closes the archive, the count returns
PackClose ==
    /\ rpc = "packing"
    /\ PackComplete
    /\ archive' = [archive EXCEPT !.mode = "closed"]
    /\ archived_count' = Len(small_files)
    /\ rpc' = "query"
    /\ UNCHANGED <<srcRoot, tree, index, index0, indexed, wdir, todo,
                   small_files, envLeft, large_left, large_count, xpos,
                   written, tarFilter, runError>>
    /\ UNCHANGED <<copyVars, taskVars>>

\* lines 99-101: SELECT path FROM file_index WHERE size >= threshold
QueryLarge ==
    /\ rpc = "query"
    /\ large_left' = {r.path : r \in {q \in index : q.size >= Threshold}}
    /\ large_count' = Cardinality({q \in index : q.size >= Threshold})
    /\ rpc' = "large"
    /\ UNCHANGED <<srcRoot, tree, index, index0, indexed, archive, wdir, todo,
                   small_files, envLeft, archived_count, xpos, written,
                   tarFilter, runError>>
    /\ UNCHANGED <<copyVars, taskVars>>

\* lines 103-107 for one row, in the order the query gives: dest_path, and
\* _copy_large_file(path, dest_path), which creates dest_path empty (line 61)
\* and raises TypeError on line 63; nothing in run() catches it
CopyLargeFile ==
    /\ rpc = "large"
    /\ \E path \in large_left :
         /\ Exists(path)
         /\ LET rel_path == RelPath(path, srcRoot)
                dest_path == Join(DestRoot, rel_path)
            IN tree' = Put(tree, Resolve(dest_path), FileRec(0, 0))
    /\ runError' = "TypeError"
    /\ rpc' = "aborted"
    /\ UNCHANGED <<srcRoot, index, index0, indexed, archive, wdir, todo,
                   small_files, envLeft, large_left, large_count,
                   archived_count, xpos, written, tarFilter>>
    /\ UNCHANGED <<copyVars, taskVars>>

\* lines 103-107 and 57 for a row whose file is not there: os.path.getsize
\* raises FileNotFoundError before anything is opened
CopyLargeMissing ==
    /\ rpc = "large"
    /\ \E path \in large_left : ~Exists(path)
    /\ runError' = "FileNotFoundError"
    /\ rpc' = "aborted"
    /\ UNCHANGED <<srcRoot, tree, index, index0, indexed, archive, wdir, todo,
                   small_files, envLeft, large_left, large_count,
                   archived_count, xpos, written, tarFilter>>
    /\ UNCHANGED <<copyVars, taskVars>>

\* line 103: the loop over large_files is through
LargePhaseOver == large_left = {}

\* line 111: tarfile.open(..., "r")
OpenArchive ==
    /\ rpc = "large"
    /\ LargePhaseOver
    /\ archive' = [archive EXCEPT !.mode = "r"]
    /\ xpos' = 0
    /\ rpc' = "unpack"
    /\ UNCHANGED <<srcRoot, tree, index, index0, indexed, wdir, todo,
                   small_files, envLeft, large_left, large_count,
                   archived_count, written, tarFilter, runError>>
    /\ UNCHANGED <<copyVars, taskVars>>

\* where extractall(self.dest) puts a member: os.path.join(path, member.name)
ExtractTarget(name) == Resolve(Join(DestRoot, name))

\* the data filter refuses a member whose target is outside the destination
Refused(name) ==
    tarFilter = "data" /\ ~Inside(ExtractTarget(name), Resolve(DestRoot))

\* line 112, one member extracted
ExtractMember ==
    /\ rpc = "unpack"
    /\ xpos < Len(archive.members)
    /\ LET m == archive.members[xpos + 1]
       IN /\ ~Refused(m.name)
          /\ tree' = Put(tree, ExtractTarget(m.name), m.file)
          /\ written' = written \cup {ExtractTarget(m.name)}
    /\ xpos' = xpos + 1
    /\ UNCHANGED <<srcRoot, index, index0, indexed, archive, rpc, wdir, todo,
                   small_files, envLeft, large_left, large_count,
                   archived_count, tarFilter, runError>>
    /\ UNCHANGED <<copyVars, taskVars>>

\* line 112, the data filter raises OutsideDestinationError, which leaves
\* run(); the with statement closes the archive
ExtractRefused ==
    /\ rpc = "unpack"
    /\ xpos < Len(archive.members)
    /\ Refused(archive.members[xpos + 1].name)
    /\ archive' = [archive EXCEPT !.mode = "closed"]
    /\ runError' = "OutsideDestinationError"
    /\ rpc' = "aborted"
    /\ UNCHANGED <<srcRoot, tree, index, index0, indexed, wdir, todo,
                   small_files, envLeft, large_left, large_count,
                   archived_count, xpos, written, tarFilter>>
    /\ UNCHANGED <<copyVars, taskVars>>

\* mutant of ExtractAllDone: the archive is removed without waiting for
\* extractall
ExtractAllSkipped == TRUE

\* line 112: extractall has returned
ExtractAllDone == xpos = Len(archive.members)

\* lines 112-114: extractall is through, the archive is closed and removed
RemoveArchive ==
    /\ rpc = "unpack"
    /\ ExtractAllDone
    /\ archive' = [archive EXCEPT !.exists = FALSE, !.mode = "none"]
    /\ rpc' = "report"
    /\ UNCHANGED <<srcRoot, tree, index, index0, indexed, wdir, todo,
                   small_files, envLeft, large_left, large_count,
                   archived_count, xpos, written, tarFilter, runError>>
    /\ UNCHANGED <<copyVars, taskVars>>

\* lines 116-118: the elapsed time, archived_count and len(large_files)
Report ==
    /\ rpc = "report"
    /\ rpc' = "done"
    /\ UNCHANGED <<srcRoot, tree, index, index0, indexed, archive, wdir, todo,
                   small_files, envLeft, large_left, large_count,
                   archived_count, xpos, written, tarFilter, runError>>
    /\ UNCHANGED <<copyVars, taskVars>>

\* Another process changes, creates or deletes a file of the source tree
\* while run() is indexing or packing. Creating a file makes its directory;
\* deleting a file leaves the directory.
EnvChange ==
    /\ rpc \in {"index", "pack", "packing"}
    /\ envLeft > 0
    /\ envLeft' = envLeft - 1
    /\ \E r \in RelPaths, f \in FileChoices :
         LET loc == Resolve(srcRoot) \o r
         IN /\ IF loc \in DOMAIN tree THEN f # tree[loc] ELSE f # Absent
            /\ tree' = IF f = Absent
                       THEN [l \in (DOMAIN tree) \ {loc} |-> tree[l]]
                       ELSE IF Len(r) > 1
                       THEN Put(Put(tree, SubSeq(loc, 1, Len(loc) - 1),
                                    DirRec), loc, f)
                       ELSE Put(tree, loc, f)
    /\ UNCHANGED <<srcRoot, index, index0, indexed, archive, rpc, wdir, todo,
                   small_files, large_left, large_count, archived_count, xpos,
                   written, tarFilter, runError>>
    /\ UNCHANGED <<copyVars, taskVars>>

Next ==
    \/ StartRun
    \/ ListDirectory
    \/ IndexFile
    \/ IndexStatFails
    \/ StartPack
    \/ PackStat
    \/ PackOpen
    \/ PackAddStat
    \/ PackAddData
    \/ PackShortRead
    \/ PackFails
    \/ PackClose
    \/ QueryLarge
    \/ CopyLargeFile
    \/ CopyLargeMissing
    \/ OpenArchive
    \/ ExtractMember
    \/ ExtractRefused
    \/ RemoveArchive
    \/ Report
    \/ EnvChange

Spec == Init /\ [][Next]_vars

NextCopy ==
    \/ CallCopy
    \/ OpenFiles
    \/ RebindThreads
    \/ RangeTypeError
    \/ ModifySource

SpecCopy == InitCopy /\ [][NextCopy]_vars

(***************************************************************************)
(* _update_index, lines 25-30, called by several tasks on one              *)
(* FastCopySystem.  owner is the task that runs on the thread which made   *)
(* the sqlite3 connection (line 20), 0 if none of them does.               *)
(***************************************************************************)
TaskPath(t) == Join(srcRoot, RelOrder[t])

InitIndex ==
    /\ srcRoot \in SrcRoots
    /\ \E f \in [RelPaths -> FileChoices \ {Absent}] :
         tree = TreeOf(srcRoot, f, DirsOf(f))
    /\ index \in StaleTables(srcRoot)
    /\ index0 = index
    /\ owner \in {0} \cup IndexTasks
    /\ upc = [t \in IndexTasks |-> "off"]
    /\ ustat = [t \in IndexTasks |-> Absent]
    /\ indexed = {}
    /\ archive = NoArchive
    /\ rpc = "off"
    /\ wdir = 0
    /\ todo = <<>>
    /\ small_files = <<>>
    /\ envLeft = 0
    /\ large_left = {}
    /\ large_count = 0
    /\ archived_count = 0
    /\ xpos = 0
    /\ written = {}
    /\ tarFilter = "fully_trusted"
    /\ runError = "none"
    /\ CopyIdle

\* line 27: stat = os.stat(path)
UStat(t) ==
    /\ upc[t] = "off"
    /\ ustat' = [ustat EXCEPT ![t] = tree[Resolve(TaskPath(t))]]
    /\ upc' = [upc EXCEPT ![t] = "stat"]
    /\ UNCHANGED <<owner, runVars, copyVars>>

\* lines 28-29 on the thread that made the connection: REPLACE INTO; the
\* statement opens a transaction, whose rollback journal stays in the working
\* directory until the commit
UExecute(t) ==
    /\ upc[t] = "stat"
    /\ owner = t
    /\ index' = ReplaceInto(index,
                    Row(TaskPath(t), ustat[t].size, ustat[t].mtime))
    /\ upc' = [upc EXCEPT ![t] = "executed"]
    /\ tree' = Put(tree, Resolve(Journal), JournalFile)
    /\ UNCHANGED <<srcRoot, index0, indexed, archive, rpc, wdir, todo,
                   small_files, envLeft, large_left, large_count,
                   archived_count, xpos, written, tarFilter, runError>>
    /\ UNCHANGED <<owner, ustat, copyVars>>

\* line 28 on any other thread: sqlite3 (check_same_thread, the default of
\* line 20) raises ProgrammingError and stores nothing
URaise(t) ==
    /\ upc[t] = "stat"
    /\ owner # t
    /\ upc' = [upc EXCEPT ![t] = "raised"]
    /\ UNCHANGED <<owner, ustat, runVars, copyVars>>

\* line 30: commit; it writes the database file and deletes the journal
UCommit(t) ==
    /\ upc[t] = "executed"
    /\ upc' = [upc EXCEPT ![t] = "done"]
    /\ tree' = Committed([l \in (DOMAIN tree) \ {Resolve(Journal)} |->
                             tree[l]])
    /\ UNCHANGED <<srcRoot, index, index0, indexed, archive, rpc, wdir, todo,
                   small_files, envLeft, large_left, large_count,
                   archived_count, xpos, written, tarFilter, runError>>
    /\ UNCHANGED <<owner, ustat, copyVars>>

NextIndex ==
    \/ \E t \in IndexTasks : UStat(t)
    \/ \E t \in IndexTasks : UExecute(t)
    \/ \E t \in IndexTasks : URaise(t)
    \/ \E t \in IndexTasks : UCommit(t)

SpecIndex == InitIndex /\ [][NextIndex]_vars

(***************************************************************************)
(* Properties of the chunk copier.                                         *)
(***************************************************************************)
\* the ranges of p cover every byte of [0, size) exactly once
Partitions(p, size) ==
    \A b \in 0..(size - 1) :
        Cardinality({i \in 1..Len(p) :
            p[i].offset <= b /\ b < p[i].offset + p[i].size}) = 1

RECURSIVE SumSizes(_)
SumSizes(p) == IF p = <<>> THEN 0 ELSE Head(p).size + SumSizes(Tail(p))

\* C2: when the chunk copier is done with a file, the ranges it computed
\* for its tasks partition [0, file_size): no overlap, no gap, lengths summing
\* to file_size, the last one absorbing file_size % N.
C2_PlanPartitions ==
    cpc = "done" =>
        /\ Partitions(plan, file_size)
        /\ SumSizes(plan) = file_size
        /\ plan # <<>> =>
              plan[Len(plan)].size =
                  ChunkSize(file_size, Len(plan)) + (file_size % Len(plan))

\* C6: the number of tasks dispatched is the worker count (4) clamped to
\* 1..file_size for a non-empty file and 0 for an empty one, and the name
\* holding the worker count still holds it.
C6_TaskCount ==
    cpc = "done" =>
        /\ Len(plan) = IF file_size = 0 THEN 0
                       ELSE Min(Max(NumThreads, 1), file_size)
        /\ ~threads.isList
        /\ threads.count = NumThreads

\* C8: after copy has been run again on the same pair, the destination is
\* identical to the source as it is now.
C8_RerunConverges ==
    (cpc = "done" /\ calls >= 2) => (dstExists /\ dstFile = srcFile)

(***************************************************************************)
(* Properties of pack and unpack.                                          *)
(***************************************************************************)
UnpackDone == rpc \in {"report", "done"}
HasTraversal(members) ==
    \E i \in 1..Len(members) :
        \E k \in 1..Len(members[i].name) : members[i].name[k] = ".."

\* C9: once pack and then unpack have run, every source file under the
\* threshold has a copy with the same bytes at dest_root/<its path relative
\* to the source root>.
C9_RoundTrip ==
    UnpackDone =>
        \A r \in RelPaths :
            LET from == Resolve(srcRoot) \o r
                to == Resolve(DestRoot) \o r
            IN (from \in DOMAIN tree /\ tree[from].size < Threshold)
                  => /\ to \in DOMAIN tree
                     /\ tree[to].size = tree[from].size
                     /\ tree[to].data = tree[from].data

\* C10: unpack never writes a file outside the destination root, and unpack
\* of an archive with a parent-directory segment in a member's path does not
\* run to completion: it ends in an error.
C10_NoTraversal ==
    /\ \A loc \in written : Inside(loc, Resolve(DestRoot))
    /\ HasTraversal(archive.members) => ~UnpackDone

(***************************************************************************)
(* Properties of the phases of run().                                      *)
(***************************************************************************)
\* C11: the archive is read for extraction only after pack has written a
\* record for every small file and closed the archive; it is open for writing
\* only while pack adds records.
C11_UnpackAfterPack ==
    /\ archive.mode = "w" => rpc = "packing"
    /\ archive.mode = "r" => rpc = "unpack"
    /\ rpc = "unpack" =>
          /\ archive.mode = "r"
          /\ Len(archive.members) = Len(small_files)
          /\ \A i \in 1..Len(small_files) :
                archive.members[i].name = ArcName(small_files[i])

C11_Witness ==
    rpc = "unpack" /\ Len(archive.members) = Len(RelOrder) /\ xpos = 1

\* C12: no step of the large-file phase aborts the run: when the copy of one
\* large file fails, the run goes on to the other files, to unpack and to
\* the report.
C12_CopyFailureTolerated ==
    [][rpc = "large" => rpc' # "aborted"]_vars

NotSmall(p) == \A i \in 1..Len(small_files) : small_files[i] # p
Occurrences(p) == Cardinality({i \in 1..Len(small_files) : small_files[i] = p})

\* C13: when the run has reported, the count of archived files is the number
\* of files packed, and every path the run enumerated is either among the
\* packed files or among the large files, once.
C13_ReportAccounts ==
    rpc = "done" =>
        /\ archived_count = Len(archive.members)
        /\ large_count = Cardinality(large_left)
        /\ \A p \in indexed :
              Occurrences(p) + (IF p \in large_left THEN 1 ELSE 0) = 1

\* C14: no step of the indexing phase aborts the run: a path whose stat
\* fails is skipped, the rest is indexed and the run goes on.
C14_IndexErrorSkipped ==
    [][rpc = "index" => rpc' # "aborted"]_vars

UniquePaths == \A r1, r2 \in index : r1.path = r2.path => r1 = r2
Paths(table) == {r.path : r \in table}

\* C15: the index holds at most one row per path; an upsert for path p
\* leaves exactly the newly observed (size, mtime) for p, leaves the rows of
\* all other paths as they were and removes none; no other step of the run
\* changes the index.
C15_UpsertReplaces ==
    /\ []UniquePaths
    /\ [][IF IndexFile
          THEN LET p == Head(todo)
                   stat == tree[Resolve(p)]
               IN /\ {r \in index' : r.path = p}
                        = {Row(p, stat.size, stat.mtime)}
                  /\ {r \in index' : r.path # p} = {r \in index : r.path # p}
                  /\ Paths(index) \subseteq Paths(index')
          ELSE index' = index]_vars

C15_Witness ==
    /\ Cardinality(index) = Len(RelOrder)
    /\ \E r0 \in index0, r \in index : r.path = r0.path /\ r # r0

AfterQuery == rpc \in {"large", "unpack", "report", "done"}

\* C17: once the large set has been queried, every path indexed in this run
\* is in exactly one of the small set and the large set.
C17_SmallLargePartition ==
    AfterQuery => \A p \in indexed : NotSmall(p) = (p \in large_left)

\* C18: the archive is unpacked only when no large file is left to copy, it
\* is removed only after every member has been extracted, and a run that
\* reaches its report has left no archive; a run that fails after pack keeps
\* the archive.
C18_ArchiveLifecycle ==
    /\ rpc = "unpack" => (LargePhaseOver /\ archive.exists)
    /\ rpc \in {"report", "done"} =>
          /\ ~archive.exists
          /\ xpos = Len(archive.members)
          /\ \A i \in 1..Len(archive.members) :
                ExtractTarget(archive.members[i].name) \in written
    /\ runError \in {"OSError", "TypeError", "OutsideDestinationError"}
          => archive.exists

C18_Witness ==
    rpc = "done" /\ xpos = Len(RelOrder) /\ ~archive.exists

\* C19: every path in the worklist of the large-file phase was enumerated by
\* the indexing phase of this run.
C19_WorklistEnumerated ==
    AfterQuery => large_left \subseteq indexed

(***************************************************************************)
(* Properties of concurrent use.                                           *)
(***************************************************************************)
TaskEnded(t) == upc[t] \in {"done", "raised"}

\* C16: once all the tasks that upsert distinct paths through the same index
\* have ended, the index holds for each of them the row that the task wrote.
C16_ConcurrentUpserts ==
    (\A t \in IndexTasks : TaskEnded(t)) =>
        \A t \in IndexTasks :
            Row(TaskPath(t), ustat[t].size, ustat[t].mtime) \in index

====
